---- MODULE Spec2Model ----
(***************************************************************************)
(* State-machine model of src/get_social_insight_data.py: the class        *)
(* SocialInsightData (date-range acquisition loop, per-day cache files,    *)
(* CSV row parser, merge into _data) and the __main__ reports.             *)
(*                                                                         *)
(* Python strings are modelled as sequences of one-character strings, so   *)
(* that slicing, strip(), split(","), int(), the f-string formats and the  *)
(* string comparison of the date loop are computed the way the code        *)
(* computes them.                                                          *)
(***************************************************************************)
EXTENDS Integers, Sequences, FiniteSets, TLC

(***************************************************************************)
(* Bounds of the model.                                                    *)
(***************************************************************************)
\* number of consecutive calendar days (from a base date) that a range may span
MaxDays == 2
\* number of runs of get_Social_Insight_data in one behaviour
MaxRuns == 2

(***************************************************************************)
(* Strings.                                                                *)
(***************************************************************************)
Digits == <<"0", "1", "2", "3", "4", "5", "6", "7", "8", "9">>

IsDigit(c) == \E i \in 1..10 : Digits[i] = c

DigitVal(c) == (CHOOSE i \in 1..10 : Digits[i] = c) - 1

\* code point order of the characters the model uses (Python compares
\* strings by code point)
Ord(c) ==
    CASE c = " " -> 32
      [] c = "," -> 44
      [] c = "-" -> 45
      [] IsDigit(c) -> 48 + DigitVal(c)
      [] c = "M" -> 77
      [] c = "T" -> 84
      [] c = "h" -> 104
      [] c = "x" -> 120
      [] OTHER -> 127

\* s < t for Python str
RECURSIVE StrLess(_, _)
StrLess(s, t) ==
    IF t = <<>> THEN FALSE
    ELSE IF s = <<>> THEN TRUE
    ELSE IF Head(s) # Head(t) THEN Ord(Head(s)) < Ord(Head(t))
    ELSE StrLess(Tail(s), Tail(t))

\* s[a:b] for 0 <= a, 0 <= b (Python slice, clipped to the string)
Slice(s, a, b) ==
    LET lo == a + 1
        hi == IF b < Len(s) THEN b ELSE Len(s)
    IN  IF lo > hi THEN <<>> ELSE SubSeq(s, lo, hi)

\* s.strip(): whitespace removed at both ends
RECURSIVE LStrip(_)
LStrip(s) == IF s # <<>> /\ Head(s) = " " THEN LStrip(Tail(s)) ELSE s

RECURSIVE RStrip(_)
RStrip(s) ==
    IF s # <<>> /\ s[Len(s)] = " " THEN RStrip(SubSeq(s, 1, Len(s) - 1)) ELSE s

Strip(s) == RStrip(LStrip(s))

\* s.split(sep) for a one-character sep: the fields between the separators,
\* at least one field
RECURSIVE SplitFrom(_, _, _)
SplitFrom(s, sep, cur) ==
    IF s = <<>> THEN <<cur>>
    ELSE IF Head(s) = sep THEN <<cur>> \o SplitFrom(Tail(s), sep, <<>>)
    ELSE SplitFrom(Tail(s), sep, Append(cur, Head(s)))

Split(s, sep) == SplitFrom(s, sep, <<>>)

\* int(s) is defined for a non-empty string of decimal digits
IsInt(s) == s # <<>> /\ \A i \in 1..Len(s) : IsDigit(s[i])

RECURSIVE IntOf(_)
IntOf(s) ==
    IF s = <<>> THEN 0
    ELSE 10 * IntOf(SubSeq(s, 1, Len(s) - 1)) + DigitVal(s[Len(s)])

\* str(n) for n >= 0
RECURSIVE StrOf(_)
StrOf(n) ==
    IF n < 10 THEN <<Digits[n + 1]>>
    ELSE StrOf(n \div 10) \o <<Digits[(n % 10) + 1]>>

\* f"{n:0w}": zero padded to at least w characters
RECURSIVE PadLeft(_, _)
PadLeft(s, w) == IF Len(s) >= w THEN s ELSE PadLeft(<<"0">> \o s, w)

Fmt(n, w) == PadLeft(StrOf(n), w)

(***************************************************************************)
(* Calendar: datetime.strptime / timedelta / strftime of shift_date.       *)
(***************************************************************************)
IsLeap(y) == (y % 4 = 0 /\ y % 100 # 0) \/ y % 400 = 0

\* DaysIn without the leap day
DaysIn_noleap(y, m) ==
    IF m = 2 THEN 28
    ELSE IF m \in {4, 6, 9, 11} THEN 30 ELSE 31

DaysIn(y, m) ==
    IF m = 2 THEN (IF IsLeap(y) THEN 29 ELSE 28)
    ELSE IF m \in {4, 6, 9, 11} THEN 30 ELSE 31

\* datetime.strptime(date, '%Y-%m-%d') as <<year, month, day>>
Strptime(date) ==
    LET f == Split(date, "-") IN <<IntOf(f[1]), IntOf(f[2]), IntOf(f[3])>>

\* dt + timedelta(days=1)
NextDay(dt) ==
    LET y == dt[1]
        m == dt[2]
        d == dt[3]
    IN  IF d < DaysIn(y, m) THEN <<y, m, d + 1>>
        ELSE IF m < 12 THEN <<y, m + 1, 1>>
        ELSE <<y + 1, 1, 1>>

\* dt + timedelta(days=shift), shift >= 0
RECURSIVE AddDays(_, _)
AddDays(dt, shift) == IF shift = 0 THEN dt ELSE AddDays(NextDay(dt), shift - 1)

\* dt.strftime('%Y-%m-%d')
Strftime(dt) == Fmt(dt[1], 4) \o <<"-">> \o Fmt(dt[2], 2) \o <<"-">> \o Fmt(dt[3], 2)

\* SocialInsightData.shift_date
shift_date(date, shift) == Strftime(AddDays(Strptime(date), shift))

(***************************************************************************)
(* Inputs of the model: dates, cache files, remote pages.                  *)
(***************************************************************************)
\* the calendar window of the model, consecutive days written out: it
\* crosses the leap day and the end of a month
Calendar ==
    << <<"2", "0", "2", "4", "-", "0", "2", "-", "2", "8">>,
       <<"2", "0", "2", "4", "-", "0", "2", "-", "2", "9">>,
       <<"2", "0", "2", "4", "-", "0", "3", "-", "0", "1">>,
       <<"2", "0", "2", "4", "-", "0", "3", "-", "0", "2">>,
       <<"2", "0", "2", "4", "-", "0", "3", "-", "0", "3">> >>

BaseDate == Calendar[1]

\* the dates a run may be given as start_date or end_date
RangeDates == {Calendar[i] : i \in 1..(MaxDays + 1)}

\* the start dates the runs are given
StartDates == {Calendar[1], Calendar[2]}

\* the dates a run over such a range can visit: the cache file names
CacheDates == {Calendar[i] : i \in 1..MaxDays}

\* a cache file: absent, or its lines (readlines(), without the line ends)
NoFile == [exists |-> FALSE, lines |-> <<>>]
File(lines) == [exists |-> TRUE, lines |-> lines]

\* what Highcharts.charts[i]?.getCSV?.() returns: nothing, or a text, held
\* as its lines (csv.splitlines())
NoCSV == [text |-> FALSE, lines |-> <<>>]
Chart(lines) == [text |-> TRUE, lines |-> lines]

\* Python's None, as the value of _keyword_id
None == "<None>"

\* "dT05,42"-style row text
Row(d, hh, v) == d \o <<"T">> \o hh \o <<",">> \o v

H05 == <<"0", "5">>
V42 == <<"4", "2">>

\* the contents a cache file for date d may have before the first run
InitLines(d) ==
    { \* header, blank line, one-character line, padded row, repeated
      \* timestamp, hour out of 00..23
      << <<"h", ",", "x">>, <<>>, <<"2">>,
         <<" ">> \o Row(d, H05, <<"7">>) \o <<" ">>,
         Row(d, H05, <<"9">>),
         Row(d, <<"2", "4">>, <<"3">>) >>,
      \* a row of a date outside every range, then a row that does not
      \* split in two (no comma on the first date, two commas on the others)
      \* before a well-formed row
      << Row(<<"2", "0", "1", "9", "-", "0", "1", "-", "0", "1">>, H05, V42),
         IF d = BaseDate THEN <<"2", "0", "x">> ELSE <<"2", "0", ",", "1", ",", "2">>,
         Row(d, <<"0", "6">>, <<"1">>) >> }

InitFiles(d) == {NoFile} \cup {File(l) : l \in InitLines(d)}

\* "M" stands for the marker text of the hourly chart
HourlyMarker == "M"

ChartPages ==
    { \* no chart at all
      << >>,
      \* no chart with the marker
      << NoCSV, Chart(<< <<"h">>, <<"5", ",", "1">> >>) >>,
      \* charts before the hourly chart, and a second hourly chart after it
      << NoCSV, Chart(<< >>), Chart(<< <<"h">>, <<"5", ",", "8">> >>),
         Chart(<< <<"h", "M">>, <<"5", ",", "4", "2">>,
                  <<"1", "2", ",", "7", ",", "9">> >>),
         Chart(<< <<"h", "M">>, <<"5", ",", "9", "9">> >>) >>,
      \* hourly chart whose second row has no integer hour
      << Chart(<< <<"M">>, <<"5", ",", "1">>, <<"x", ",", "2">> >>) >>,
      \* hourly chart whose second row has no value field
      << Chart(<< <<"M">>, <<"5", ",", "1">>, <<"7">> >>) >> }

\* an <a> element: its text and its href, the href split at "/"
Link(text, href) == [text |-> text, href |-> href]

KW == <<"k", "w">>

LinkPages ==
    { \* the keyword's link, after another link
      << Link(<<"o">>, <<"https:", "", "h", "keywords", "k0", "tw">>),
         Link(<<" ", "k", "w", " ">>, <<"https:", "", "h", "keywords", "k1", "tw">>) >>,
      \* a link with the keyword's text and no "/keywords/" in its href
      << Link(KW, <<"https:", "", "h", "help">>) >>,
      \* no link with the keyword's text
      << Link(<<"o">>, <<"https:", "", "h", "keywords", "k0", "tw">>) >> }

(***************************************************************************)
(* Pure parts of the methods.                                              *)
(***************************************************************************)
EmptyDict == [k \in {} |-> <<>>]

\* Put that keeps the value of a key already present
Put_keep(d, k, v) ==
    [j \in DOMAIN d \cup {k} |-> IF j \in DOMAIN d THEN d[j] ELSE v]

\* d[k] = v
Put(d, k, v) == [j \in DOMAIN d \cup {k} |-> IF j = k THEN v ELSE d[j]]

\* "/keywords/" in href, for an href split at "/"
HasKeywordsPath(href) ==
    \E i \in 2..(Len(href) - 1) : href[i] = "keywords"

\* href.split("/keywords/")[1].split("/")[0]
KeywordIdOf(href) ==
    LET i == CHOOSE j \in 2..(Len(href) - 1) :
                 /\ href[j] = "keywords"
                 /\ \A k \in 2..(j - 1) : href[k] # "keywords"
    IN  href[i + 1]

\* get_keyword_id: the id of the first link whose stripped text is the
\* keyword and whose href holds "/keywords/"; None when the for loop ends
RECURSIVE get_keyword_id(_, _)
get_keyword_id(links, keyword) ==
    IF links = <<>> THEN None
    ELSE IF Strip(Head(links).text) = keyword /\ HasKeywordsPath(Head(links).href)
         THEN KeywordIdOf(Head(links).href)
         ELSE get_keyword_id(Tail(links), keyword)

\* "marker" in csv
HasMarker(csv) ==
    \E i \in 1..Len(csv.lines) :
        \E j \in 1..Len(csv.lines[i]) : csv.lines[i][j] = HourlyMarker

\* `not csv`: no text, or the empty text
NotCSV(csv) == ~csv.text \/ csv.lines = <<>>

\* FirstHourlyFrom that does not look for the marker
RECURSIVE FirstHourlyFrom_any(_, _)
FirstHourlyFrom_any(charts, i) ==
    IF i > Len(charts) THEN 0
    ELSE IF NotCSV(charts[i]) THEN FirstHourlyFrom_any(charts, i + 1)
    ELSE i

\* the chart get_Social_Insight_data_at_date takes: the first one, in index
\* order, that has text and whose text holds the marker; 0 when there is none
RECURSIVE FirstHourlyFrom(_, _)
FirstHourlyFrom(charts, i) ==
    IF i > Len(charts) THEN 0
    ELSE IF NotCSV(charts[i]) THEN FirstHourlyFrom(charts, i + 1)
    ELSE IF HasMarker(charts[i]) THEN i
    ELSE FirstHourlyFrom(charts, i + 1)

FirstHourly(charts) == FirstHourlyFrom(charts, 1)

\* WriteRows that writes all the text of the row after the hour
RECURSIVE WriteRows_rest(_, _, _)
WriteRows_rest(date, rows, out) ==
    IF rows = <<>> THEN [lines |-> out, err |-> "ok"]
    ELSE LET tok == Split(Head(rows), ",")
         IN  IF ~IsInt(tok[1]) THEN [lines |-> out, err |-> "ValueError"]
             ELSE IF Len(tok) < 2 THEN [lines |-> out, err |-> "IndexError"]
             ELSE WriteRows_rest(date, Tail(rows),
                                 Append(out, date \o <<"T">> \o Fmt(IntOf(tok[1]), 2)
                                                  \o Slice(Head(rows), Len(tok[1]),
                                                           Len(Head(rows)))))

\* the write loop over csv_list: the lines written so far and the error
\* that ends the loop ("ok" when every row was written)
RECURSIVE WriteRows(_, _, _)
WriteRows(date, rows, out) ==
    IF rows = <<>> THEN [lines |-> out, err |-> "ok"]
    ELSE LET tok == Split(Head(rows), ",")
         IN  IF ~IsInt(tok[1]) THEN [lines |-> out, err |-> "ValueError"]
             ELSE IF Len(tok) < 2 THEN [lines |-> out, err |-> "IndexError"]
             ELSE WriteRows(date, Tail(rows),
                            Append(out, date \o <<"T">> \o Fmt(IntOf(tok[1]), 2)
                                             \o <<",">> \o tok[2]))

\* FetchResult that leaves an empty file when no chart has the marker
FetchResult_empty(date, charts) ==
    LET i == FirstHourly(charts)
    IN  IF i = 0 THEN [found |-> TRUE, lines |-> <<>>, err |-> "ok"]
        ELSE LET w == WriteRows(date, Tail(charts[i].lines), <<>>)
             IN  [found |-> TRUE, lines |-> w.lines, err |-> w.err]

\* get_Social_Insight_data_at_date: found is FALSE when no chart has the
\* marker (nothing is written); otherwise the file is opened for writing and
\* holds the rows written before the loop ended
FetchResult(date, charts) ==
    LET i == FirstHourly(charts)
    IN  IF i = 0 THEN [found |-> FALSE, lines |-> <<>>, err |-> "ok"]
        ELSE LET w == WriteRows(date, Tail(charts[i].lines), <<>>)
             IN  [found |-> TRUE, lines |-> w.lines, err |-> w.err]

\* IsDataRow that looks at the first character only
IsDataRow_first(sline) == Slice(sline, 0, 1) = <<"2">>

\* ASSERTION of add_data_from_csv: a data row starts with "20"
IsDataRow(sline) == Slice(sline, 0, 2) = <<"2", "0">>

\* MergeLines that skips a row which does not split in two
RECURSIVE MergeLines_skip(_, _, _)
MergeLines_skip(lines, dict, pts) ==
    IF lines = <<>> THEN [dict |-> dict, points |-> pts, err |-> "ok"]
    ELSE LET sline == Strip(Head(lines))
             tok == Split(sline, ",")
         IN  IF ~IsDataRow(sline) \/ Len(tok) # 2
             THEN MergeLines_skip(Tail(lines), dict, pts)
             ELSE MergeLines_skip(Tail(lines), Put(dict, tok[1], tok[2]),
                                  Append(pts, <<tok[1], tok[2]>>))

\* the for loop of add_data_from_csv over the lines of the file: the dict of
\* period 0, the points stored (in order) and the error that ends the loop
RECURSIVE MergeLines(_, _, _)
MergeLines(lines, dict, pts) ==
    IF lines = <<>> THEN [dict |-> dict, points |-> pts, err |-> "ok"]
    ELSE LET sline == Strip(Head(lines))
         IN  IF ~IsDataRow(sline) THEN MergeLines(Tail(lines), dict, pts)
             ELSE LET tok == Split(sline, ",")
                  IN  IF Len(tok) # 2
                      THEN [dict |-> dict, points |-> pts, err |-> "ValueError"]
                      ELSE MergeLines(Tail(lines), Put(dict, tok[1], tok[2]),
                                      Append(pts, <<tok[1], tok[2]>>))

\* SortedItems that lists the greatest key first
RECURSIVE SortedItems_desc(_)
SortedItems_desc(d) ==
    IF DOMAIN d = {} THEN <<>>
    ELSE LET k == CHOOSE a \in DOMAIN d : \A b \in DOMAIN d : a = b \/ StrLess(b, a)
         IN  <<<<k, d[k]>>>> \o SortedItems_desc([j \in DOMAIN d \ {k} |-> d[j]])

\* sorted(d.items(), key=lambda x: x[0]) for a dict keyed by strings
RECURSIVE SortedItems(_)
SortedItems(d) ==
    IF DOMAIN d = {} THEN <<>>
    ELSE LET k == CHOOSE a \in DOMAIN d : \A b \in DOMAIN d : a = b \/ StrLess(a, b)
         IN  <<<<k, d[k]>>>> \o SortedItems([j \in DOMAIN d \ {k} |-> d[j]])

(***************************************************************************)
(* State.                                                                  *)
(***************************************************************************)
VARIABLES
    \* fields of the SocialInsightData object
    _keyword, _keyword_id, _start_date, _end_date, _save_dir,
    _data, _num_period, _max_period,
    \* get_Social_Insight_data: the loop variable, the session, the position
    date, web_driver, pc,
    \* the file system: whether the save directory exists, and the cache file
    \* of each date (NoFile or its lines)
    dir_exists, cache,
    \* what print_data_of_max_period printed
    report,
    \* history: number of runs started, whether the current run began on a
    \* newly constructed object, the steps of the current run, the points the
    \* last add_data_from_csv stored, the state the previous run ended in,
    \* whether the series held no timestamp when the current run began
    run, fresh, log, points, prev, started_empty

obj == <<_keyword, _keyword_id, _start_date, _end_date, _save_dir,
         _data, _num_period, _max_period>>
ctl == <<date, web_driver, pc>>
env == <<dir_exists, cache>>
hist == <<run, fresh, log, points, prev, started_empty>>
vars == <<obj, ctl, env, report, hist>>

SaveDir == "SI_kw/csv"

\* positions at which no call of get_Social_Insight_data is in progress
Idle == {"new", "done", "aborted", "reported", "report_error"}

Event(op, d) == [op |-> op, d |-> d]

\* a call of get_Social_Insight_data has returned
Completed == pc \in {"done", "reported", "report_error"}

\* the date whose fetch found no chart with the marker in the current run,
\* <<>> when there is none
FailedDate ==
    LET F == {i \in 1..Len(log) : log[i].op = "fetch_failed"}
    IN  IF F = {} THEN <<>> ELSE log[CHOOSE i \in F : TRUE].d

\* what is kept of a run that ended: its range, whether it returned,
\* whether it began on a new object, the date whose fetch failed, and the
\* store it returned with
Snapshot ==
    [valid |-> TRUE, same |-> FALSE, start |-> _start_date, end |-> _end_date,
     completed |-> Completed, fresh |-> fresh, failed |-> FailedDate,
     data |-> IF Completed THEN _data ELSE EmptyDict,
     num |-> IF Completed THEN _num_period ELSE 0,
     max |-> IF Completed THEN _max_period ELSE 0]

NoRun ==
    [valid |-> FALSE, same |-> FALSE, start |-> <<>>, end |-> <<>>,
     completed |-> FALSE, fresh |-> FALSE, failed |-> <<>>,
     data |-> EmptyDict, num |-> 0, max |-> 0]

\* what the next run, over [start_date, end_date), keeps of the run p
\* before it: p, when p had the same range
Against(p, start_date, end_date) ==
    IF p.valid /\ p.start = start_date /\ p.end = end_date
    THEN [p EXCEPT !.same = TRUE]
    ELSE NoRun

(***************************************************************************)
(* Init: a newly constructed object (__init__), any cache directory.       *)
(***************************************************************************)
Init ==
    /\ _keyword = <<>>
    /\ _keyword_id = ""
    /\ _start_date = <<>>
    /\ _end_date = <<>>
    /\ _save_dir = ""
    /\ _data = EmptyDict
    /\ _num_period = 0
    /\ _max_period = 0
    /\ date = <<>>
    /\ web_driver = "none"
    /\ pc = "new"
    /\ cache \in {c \in [CacheDates -> UNION {InitFiles(d) : d \in CacheDates}] :
                    \A d \in CacheDates : c[d] \in InitFiles(d)}
    /\ dir_exists \in {b \in BOOLEAN : (\E d \in CacheDates : cache[d].exists) => b}
    /\ report = <<>>
    /\ run = 0
    /\ fresh = TRUE
    /\ log = <<>>
    /\ points = <<>>
    /\ prev = NoRun
    /\ started_empty = TRUE

(***************************************************************************)
(* Actions.                                                                *)
(***************************************************************************)
\* getter = SocialInsightData(): a new process constructs a new object
Construct ==
    /\ pc \in Idle \ {"new"}
    /\ run < MaxRuns
    /\ _keyword' = <<>>
    /\ _keyword_id' = ""
    /\ _start_date' = <<>>
    /\ _end_date' = <<>>
    /\ _save_dir' = ""
    /\ _data' = EmptyDict
    /\ _num_period' = 0
    /\ _max_period' = 0
    /\ date' = <<>>
    /\ web_driver' = "none"
    /\ pc' = "new"
    /\ report' = <<>>
    /\ fresh' = TRUE
    /\ prev' = Snapshot
    /\ log' = <<>>
    /\ points' = <<>>
    /\ started_empty' = TRUE
    /\ UNCHANGED <<env, run>>

\* get_Social_Insight_data, lines 141-153: the arguments, make_save_dir,
\* the reset of _num_period and _max_period
Call(start_date, end_date) ==
    /\ pc \in Idle
    /\ run < MaxRuns
    /\ _start_date' = start_date
    /\ _end_date' = end_date
    /\ _keyword' = KW
    /\ _save_dir' = SaveDir
    /\ dir_exists' = TRUE
    /\ _num_period' = 0
    /\ _max_period' = 0
    /\ pc' = "open"
    /\ run' = run + 1
    /\ fresh' = (pc = "new")
    /\ prev' = Against(IF pc = "new" THEN prev ELSE Snapshot, start_date, end_date)
    /\ log' = <<Event("mkdir", <<>>)>>
    /\ points' = <<>>
    /\ started_empty' = \A p \in DOMAIN _data : DOMAIN _data[p] = {}
    /\ date' = <<>>
    /\ web_driver' = "none"
    /\ report' = <<>>
    /\ UNCHANGED <<_keyword_id, _data, cache>>

\* web_driver = self.open_web_driver('chrome')
OpenWebDriver ==
    /\ pc = "open"
    /\ web_driver' = "open"
    /\ pc' = "login"
    /\ log' = Append(log, Event("open", <<>>))
    /\ UNCHANGED <<obj, date, env, report, run, fresh, points, prev, started_empty>>

\* Login that does not log in
Login_skip ==
    /\ pc = "login"
    /\ pc' = "resolve"
    /\ UNCHANGED <<obj, date, web_driver, env, report, hist>>

\* self.login_Social_Insight(web_driver)
Login ==
    /\ pc = "login"
    /\ web_driver' = "logged_in"
    /\ pc' = "resolve"
    /\ log' = Append(log, Event("login", <<>>))
    /\ UNCHANGED <<obj, date, env, report, run, fresh, points, prev, started_empty>>

\* self._keyword_id = self.get_keyword_id(web_driver); date = self._start_date
ResolveKeyword(links) ==
    /\ pc = "resolve"
    /\ _keyword_id' = get_keyword_id(links, _keyword)
    /\ date' = _start_date
    /\ pc' = "loop"
    /\ log' = Append(log, Event("resolve", <<>>))
    /\ UNCHANGED <<_keyword, _start_date, _end_date, _save_dir, _data,
                   _num_period, _max_period, web_driver, env, report,
                   run, fresh, points, prev, started_empty>>

\* CacheHit that never finds the file
CacheHit_never(d) == FALSE

\* CacheHit that looks for the save directory
CacheHit_dir(d) == dir_exists

\* CacheHit with the test inverted
CacheHit_not(d) == ~cache[d].exists

\* os.path.exists(self.save_csv_file(date))
CacheHit(d) == cache[d].exists

\* InRange that includes the end date
InRange_le(d, end_date) == d = end_date \/ StrLess(d, end_date)

\* date < self._end_date (str comparison)
InRange(d, end_date) == StrLess(d, end_date)

\* while date < self._end_date: if os.path.exists(...): notice, else: fetch
LoopTest ==
    /\ pc = "loop"
    /\ IF InRange(date, _end_date)
       THEN /\ pc' = IF CacheHit(date) THEN "load" ELSE "fetch"
            /\ log' = Append(log, Event(IF CacheHit(date) THEN "hit" ELSE "miss", date))
       ELSE /\ pc' = "done"
            /\ log' = log
    /\ UNCHANGED <<obj, date, web_driver, env, report, run, fresh, points, prev,
                   started_empty>>

\* self.get_Social_Insight_data_at_date(date, web_driver), the page showing
\* the charts `charts`
Fetch(charts) ==
    /\ pc = "fetch"
    /\ LET r == FetchResult(date, charts)
       IN  /\ cache' = IF r.found THEN [cache EXCEPT ![date] = File(r.lines)] ELSE cache
           /\ pc' = IF r.err = "ok" THEN "load" ELSE "aborted"
           /\ log' = Append(log, Event(IF ~r.found THEN "fetch_failed"
                                       ELSE IF r.err = "ok" THEN "fetched"
                                       ELSE "fetch_error", date))
    /\ UNCHANGED <<obj, date, web_driver, dir_exists, report, run, fresh, points,
                   prev, started_empty>>

\* self.add_data_from_csv(date); date = self.shift_date(date, 1)
Load ==
    /\ pc = "load"
    /\ LET first == (DOMAIN _data = {})
           d0 == IF first THEN EmptyDict ELSE _data[0]
           r == IF ~cache[date].exists
                THEN [dict |-> d0, points |-> <<>>, err |-> "FileNotFoundError"]
                ELSE MergeLines(cache[date].lines, d0, <<>>)
       IN  /\ _data' = [p \in DOMAIN _data \cup {0} |-> IF p = 0 THEN r.dict ELSE _data[p]]
           /\ _num_period' = IF first THEN 1 ELSE _num_period
           /\ points' = r.points
           /\ IF r.err = "ok"
              THEN /\ date' = shift_date(date, 1)
                   /\ pc' = "loop"
                   /\ log' = Append(log, Event("loaded", date))
              ELSE /\ date' = date
                   /\ pc' = "aborted"
                   /\ log' = Append(log, Event(IF r.err = "ValueError" THEN "load_error"
                                               ELSE "load_missing", date))
    /\ UNCHANGED <<_keyword, _keyword_id, _start_date, _end_date, _save_dir,
                   _max_period, web_driver, env, report, run, fresh, prev,
                   started_empty>>

\* __main__: getter.print_data(); getter.print_data_of_max_period()
\* (self._data[p] raises KeyError when period p does not exist)
Report ==
    /\ pc = "done"
    /\ IF _max_period \in DOMAIN _data
       THEN /\ report' = SortedItems(_data[_max_period])
            /\ pc' = "reported"
       ELSE /\ report' = <<>>
            /\ pc' = "report_error"
    /\ UNCHANGED <<obj, date, web_driver, env, hist>>

Next ==
    \/ Construct
    \/ \E s \in StartDates, e \in RangeDates : ~StrLess(e, s) /\ Call(s, e)
    \/ OpenWebDriver
    \/ Login
    \/ \E links \in LinkPages : ResolveKeyword(links)
    \/ LoopTest
    \/ \E charts \in ChartPages : Fetch(charts)
    \/ Load
    \/ Report

Spec == Init /\ [][Next]_vars

(***************************************************************************)
(* Vocabulary of the properties, read off the history variables.           *)
(***************************************************************************)
\* a call of get_Social_Insight_data has returned or raised
Ended == pc \in Idle \ {"new"}

IsVisit(e) == e.op \in {"hit", "miss"}
IsFetch(e) == e.op \in {"fetched", "fetch_failed", "fetch_error"}
IsLoad(e) == e.op \in {"loaded", "load_error", "load_missing"}

DatesOf(evs) == [i \in 1..Len(evs) |-> evs[i].d]

\* the dates the current run visited, fetched, loaded, in order
Visited == DatesOf(SelectSeq(log, IsVisit))
Fetched == DatesOf(SelectSeq(log, IsFetch))
Loaded == DatesOf(SelectSeq(log, IsLoad))

HasEvent(op) == \E i \in 1..Len(log) : log[i].op = op

\* the current run has the range of the previous run
SameRangeAsPrev == pc # "new" /\ prev.valid /\ prev.same

\* the place of a date in the calendar window
DayIndex(d) == CHOOSE i \in 1..Len(Calendar) : Calendar[i] = d

\* the dates of [start, end), in order
RangeSeq(start_date, end_date) ==
    SubSeq(Calendar, DayIndex(start_date), DayIndex(end_date) - 1)

(***************************************************************************)
(* Properties.                                                             *)
(***************************************************************************)

\* C1: when the fetch of a date d fails (no chart holds the marker, no file
\* is written), the run is not aborted at d: no step of the run raises for d
\* after the failed fetch.
C1_FetchFailureTolerated ==
    \A i \in 1..Len(log) :
        log[i].op = "fetch_failed" =>
            ~(\E j \in (i + 1)..Len(log) :
                  log[j].op = "load_missing" /\ log[j].d = log[i].d)

C3_Memoization ==
    /\ [][(pc = "loop" /\ pc' \in {"fetch", "load"}) =>
              (pc' = "fetch" <=> ~cache[date].exists)]_vars
    /\ [][(Len(Fetched') > Len(Fetched)) => ~cache[date].exists]_vars
    /\ [](\A i, j \in 1..Len(Fetched) : Fetched[i] = Fetched[j] => i = j)

\* C3 witness: a later run that took one date from the cache and fetched
\* another.
C3_Witness ==
    /\ run >= 2
    /\ HasEvent("hit") /\ HasEvent("fetched")

\* C4: when get_keyword_id finds no link for the keyword, the run halts
\* there: nothing is fetched, loaded or merged in that run.
C4_KeywordNotFoundHalts ==
    (HasEvent("resolve") /\ _keyword_id = None) =>
        /\ pc = "aborted"
        /\ Len(Visited) = 0 /\ Len(Fetched) = 0 /\ Len(Loaded) = 0

Keys == UNION {DOMAIN _data[p] : p \in DOMAIN _data}

\* the date part of a timestamp YYYY-MM-DDTHH
DatePart(t) == Slice(t, 0, 10)

\* the first two characters of s are "20"
HasPrefix20(s) == Len(s) >= 2 /\ s[1] = "2" /\ s[2] = "0"

CommaCount(s) == Cardinality({j \in 1..Len(s) : s[j] = ","})

\* the lines of file f that pass the prefix check, and those of them that
\* do not hold exactly one comma
DataIdx(f) == {i \in 1..Len(f) : HasPrefix20(Strip(f[i]))}
BadIdx(f) == {i \in DataIdx(f) : CommaCount(Strip(f[i])) # 1}

\* the lines of f that are parsed before the first such row
AcceptedIdx(f) == {i \in DataIdx(f) : \A b \in BadIdx(f) : i < b}

\* the j-th smallest element of a set of numbers
Nth(S, j) == CHOOSE i \in S : Cardinality({k \in S : k < i}) = j - 1

\* every data row of the file of date d has a timestamp of date d
OwnKeyed(f, d) ==
    \A i \in DataIdx(f) : DatePart(Split(Strip(f[i]), ",")[1]) = d

\* the last step of the run was add_data_from_csv reading an existing file
AfterLoad ==
    Len(log) > 0 /\ log[Len(log)].op \in {"loaded", "load_error"}

LastOp == log[Len(log)].op
LastFile == cache[log[Len(log)].d].lines

\* the value of the last occurrence of timestamp t in a sequence of points
LastValue(pts, t) ==
    pts[CHOOSE j \in 1..Len(pts) :
            pts[j][1] = t /\ \A k \in (j + 1)..Len(pts) : pts[k][1] # t][2]

\* C6 as stated: in every state of a run every timestamp of the series has
\* a date part d with start_date <= d < end_date, whatever the cache files
\* hold and whatever runs came before on the same store.
C6_RangeContainment ==
    (run >= 1 /\ pc # "new") =>
        \A t \in Keys : /\ ~StrLess(DatePart(t), _start_date)
                        /\ StrLess(DatePart(t), _end_date)

\* C6 amended: when the series held no timestamp at the start of the run
\* and every file the run loaded for a date d holds only data rows with a
\* timestamp of date d, every timestamp of the series has a date part d with
\* start_date <= d < end_date.
C6_RangeContainmentOwnKeyed ==
    (run >= 1 /\ pc # "new" /\ started_empty
       /\ \A i \in 1..Len(Loaded) :
              cache[Loaded[i]].exists => OwnKeyed(cache[Loaded[i]].lines, Loaded[i])) =>
        \A t \in Keys : /\ ~StrLess(DatePart(t), _start_date)
                        /\ StrLess(DatePart(t), _end_date)

\* C6 witness: a completed run over two dates, begun on an empty series,
\* whose files are keyed by their own date, with points in the series.
C6_Witness ==
    /\ pc = "done" /\ run >= 2 /\ started_empty
    /\ Len(Loaded) = 2
    /\ \A i \in 1..Len(Loaded) : OwnKeyed(cache[Loaded[i]].lines, Loaded[i])
    /\ Cardinality(Keys) >= 3

\* C7 as stated: add_data_from_csv raises nothing and stores exactly one
\* point per line whose stripped text starts with "20", the point of the
\* j-th such line being its text "T,V", in file order.
C7_RowFilter ==
    AfterLoad =>
        /\ LastOp = "loaded"
        /\ Len(points) = Cardinality(DataIdx(LastFile))
        /\ \A j \in 1..Len(points) :
               /\ points[j][1] \o <<",">> \o points[j][2]
                      = Strip(LastFile[Nth(DataIdx(LastFile), j)])
               /\ CommaCount(points[j][1]) = 0

\* C7 amended: a line whose stripped text does not start with "20" is
\* skipped without error; the lines that start with "20", up to the first
\* one that does not hold exactly one comma, yield one point "T,V" each, in
\* file order; the first line that starts with "20" and does not hold exactly
\* one comma ends the parse with an error.
C7_RowFilterUpToBadRow ==
    AfterLoad =>
        /\ LastOp = "load_error" <=> BadIdx(LastFile) # {}
        /\ Len(points) = Cardinality(AcceptedIdx(LastFile))
        /\ \A j \in 1..Len(points) :
               /\ points[j][1] \o <<",">> \o points[j][2]
                      = Strip(LastFile[Nth(AcceptedIdx(LastFile), j)])
               /\ CommaCount(points[j][1]) = 0

\* C7 witness: a file with a header, a blank line, a one-character line and
\* a padded row was parsed into three points.
C7_Witness ==
    /\ AfterLoad /\ LastOp = "loaded"
    /\ Len(LastFile) = 6
    /\ Len(points) = 3

\* C8 as stated: add_data_from_csv raises no error on a row that passes
\* the prefix check, whatever its fields.
C8_NoErrorOnMalformedRow ==
    AfterLoad => LastOp = "loaded"

\* C8 amended: a row that passes the prefix check and holds exactly one
\* comma raises no error even when its hour is outside 00..23, and parsing
\* goes on past it; a row that passes the prefix check and does not hold
\* exactly one comma raises an error that aborts the run.
C8_ErrorOnlyOnFieldCount ==
    AfterLoad =>
        /\ LastOp = "load_error" <=> BadIdx(LastFile) # {}
        /\ LastOp = "load_error" => pc = "aborted"
        /\ LastOp = "loaded" => pc # "aborted"
        /\ \A i \in AcceptedIdx(LastFile) :
               LET t == Split(Strip(LastFile[i]), ",")[1]
               IN  (IsInt(Slice(t, 11, 13)) /\ IntOf(Slice(t, 11, 13)) > 23) =>
                       /\ t \in Keys
                       /\ \A k \in DataIdx(LastFile) :
                              (k > i /\ BadIdx(LastFile) = {}) =>
                                  Split(Strip(LastFile[k]), ",")[1] \in Keys

\* C8 witness: a run that stored a point with hour 24 and was then aborted
\* by a row that does not split in two.
C8_Witness ==
    /\ AfterLoad /\ LastOp = "load_error" /\ pc = "aborted"
    /\ \E t \in Keys : Slice(t, 11, 13) = <<"2", "4">>

\* C9: add_data_from_csv leaves every timestamp it stored mapped to the
\* value of its last occurrence and every other timestamp as it was; and
\* merging a cache file a second time changes nothing.
C9_LastWriteWins ==
    /\ [][(pc = "load" /\ pc' # "load") =>
              LET old == IF 0 \in DOMAIN _data THEN _data[0] ELSE EmptyDict
                  new == _data'[0]
                  ts == {points'[j][1] : j \in 1..Len(points')}
              IN  /\ DOMAIN new = DOMAIN old \cup ts
                  /\ \A t \in DOMAIN new :
                         new[t] = IF t \in ts THEN LastValue(points', t) ELSE old[t]]_vars
    /\ [](\A d \in CacheDates :
              cache[d].exists =>
                  LET old == IF 0 \in DOMAIN _data THEN _data[0] ELSE EmptyDict
                      once == MergeLines(cache[d].lines, old, <<>>).dict
                  IN  MergeLines(cache[d].lines, once, <<>>).dict = once)

\* C9 witness: a file with a repeated timestamp was merged, and a file was
\* merged into a series that already held its timestamps.
C9_Witness ==
    /\ AfterLoad /\ ~fresh /\ prev.completed
    /\ \E i, j \in 1..Len(points) :
           i < j /\ points[i][1] = points[j][1] /\ points[i][2] # points[j][2]
    /\ prev.valid /\ 0 \in DOMAIN prev.data
    /\ \A j \in 1..Len(points) : points[j][1] \in DOMAIN prev.data[0]

\* C10: after a completed run max_period is the index of an existing
\* period that holds at least as many timestamps as every other period (the
\* lowest such index), also when the range is empty.
C10_MaxPeriodExists ==
    Completed =>
        /\ _max_period \in DOMAIN _data
        /\ \A p \in DOMAIN _data :
               LET m == Cardinality(DOMAIN _data[_max_period])
                   n == Cardinality(DOMAIN _data[p])
               IN  m >= n /\ (m = n => _max_period <= p)

\* the points "T,V" of the data rows of the lines f, in file order
RowPoints(f) ==
    [j \in 1..Cardinality(DataIdx(f)) |->
        LET tok == Split(Strip(f[Nth(DataIdx(f), j)]), ",")
        IN  <<tok[1], IF Len(tok) >= 2 THEN tok[2] ELSE <<>>>>]

\* the points of the cache files of the dates ds, in the order of ds
RECURSIVE PointsOf(_)
PointsOf(ds) ==
    IF ds = <<>> THEN <<>>
    ELSE (IF cache[Head(ds)].exists THEN RowPoints(cache[Head(ds)].lines) ELSE <<>>)
             \o PointsOf(Tail(ds))

\* the points of the cache files of the dates of the range of the run
RangePoints == PointsOf(RangeSeq(_start_date, _end_date))

\* the store is one period, index 0, counted by num_periods, that maps
\* exactly the timestamps of pts, each to the value of its last occurrence
OnePeriodOf(pts) ==
    /\ DOMAIN _data = {0}
    /\ _num_period = 1
    /\ DOMAIN _data[0] = {pts[j][1] : j \in 1..Len(pts)}
    /\ \A t \in DOMAIN _data[0] : _data[0][t] = LastValue(pts, t)

\* the report lists every point of period 0 once, by ascending timestamp
ReportListsPeriod0 ==
    /\ 0 \in DOMAIN _data
    /\ {report[i] : i \in 1..Len(report)} = {<<t, _data[0][t]>> : t \in DOMAIN _data[0]}
    /\ \A i, j \in 1..Len(report) : i < j => StrLess(report[i][1], report[j][1])

\* the run has returned from a non-empty range in which no fetch failed
EndToEnd ==
    /\ pc \in {"done", "reported", "report_error"}
    /\ StrLess(_start_date, _end_date)
    /\ ~HasEvent("fetch_failed") /\ ~HasEvent("fetch_error")

C12_AtomicArtifact ==
    \A i \in 1..Len(log) :
        log[i].op = "fetch_error" => ~cache[log[i].d].exists

\* C13: in every state num_periods is the number of periods of the store:
\* 0 while the store has no period, 1 once period 0 exists, also during and
\* after a second call of get_Social_Insight_data on the same object.
C13_NumPeriodsCounts ==
    _num_period = Cardinality(DOMAIN _data)

\* C14: a cache file that exists is never changed or removed by a later
\* step, of the same run or of a later one; and the steps that process a date
\* on a cache hit (the cache check, the load) change no cache file.
C14_ArtifactsImmutable ==
    [][/\ \A d \in CacheDates : cache[d].exists => cache'[d] = cache[d]
       /\ (pc \in {"loop", "load"}) => cache' = cache]_vars

\* C14 witness: a later run is done that took one date from the cache and
\* wrote the file of another, both files merged.
C14_Witness ==
    /\ run >= 2 /\ pc = "done"
    /\ HasEvent("hit") /\ HasEvent("fetched")
    /\ Loaded = <<Calendar[1], Calendar[2]>>
    /\ \A i \in 1..Len(Loaded) : cache[Loaded[i]].exists

\* the charts of the page with text that holds the marker
MarkerCharts(charts) ==
    {i \in 1..Len(charts) : charts[i].text /\ HasMarker(charts[i])}

\* the rows of the lowest-index chart of the page that holds the marker,
\* its header line dropped
HourlyRows(charts) ==
    LET i == CHOOSE k \in MarkerCharts(charts) : \A m \in MarkerCharts(charts) : k <= m
    IN  SubSeq(charts[i].lines, 2, Len(charts[i].lines))

\* the two-digit text of an hour written in digits without a leading zero
Hour2(h) == IF Len(h) = 1 THEN <<"0">> \o h ELSE h

\* the row has an hour in digits, and a value field after it
GoodRow(row) ==
    /\ Len(Split(row, ",")) >= 2
    /\ Split(row, ",")[1] # <<>>
    /\ \A j \in 1..Len(Split(row, ",")[1]) : IsDigit(Split(row, ",")[1][j])

\* the row "h,v,..." re-keyed for date d: "dThh,v"
ReKeyed(d, row) ==
    d \o <<"T">> \o Hour2(Split(row, ",")[1]) \o <<",">> \o Split(row, ",")[2]

\* the number of rows before the first row that is not a good row
GoodPrefix(rows) ==
    Cardinality({j \in 1..Len(rows) : \A k \in 1..j : GoodRow(rows[k])})

\* the last step of the run was a fetch that reported the failure
FetchFailed == log'[Len(log')].op = "fetch_failed"

\* C15 as stated: a fetch for date d reports the failure iff no chart of
\* the page holds the marker, and then writes nothing; otherwise it writes
\* the file of d from the lowest-index chart with the marker alone: one line
\* per row after the header, the row re-keyed from hour h to d "T" hh.
C15_ChartSelection ==
    [][\A charts \in ChartPages :
           Fetch(charts) =>
               /\ FetchFailed <=> MarkerCharts(charts) = {}
               /\ FetchFailed => cache' = cache
               /\ MarkerCharts(charts) # {} =>
                      LET rows == HourlyRows(charts)
                      IN  /\ cache'[date].exists
                          /\ Len(cache'[date].lines) = Len(rows)
                          /\ \A j \in 1..Len(rows) :
                                 GoodRow(rows[j])
                                     /\ cache'[date].lines[j] = ReKeyed(date, rows[j])
                          /\ \A d \in CacheDates \ {date} : cache'[d] = cache[d]]_vars

\* C15 amended: the same, with the rows re-keyed up to the first row whose
\* hour is not an integer or that has no value field: such a row raises an
\* error that ends the fetch and the run, with the rows before it written;
\* the value written is the second field of the row.
C15_ChartSelectionUpToBadRow ==
    [][\A charts \in ChartPages :
           Fetch(charts) =>
               /\ FetchFailed <=> MarkerCharts(charts) = {}
               /\ FetchFailed => cache' = cache
               /\ MarkerCharts(charts) # {} =>
                      LET rows == HourlyRows(charts)
                          n == GoodPrefix(rows)
                      IN  /\ cache'[date].exists
                          /\ Len(cache'[date].lines) = n
                          /\ \A j \in 1..n :
                                 cache'[date].lines[j] = ReKeyed(date, rows[j])
                          /\ (n < Len(rows)) <=> pc' = "aborted"
                          /\ (n = Len(rows)) <=> log'[Len(log')].op = "fetched"
                          /\ \A d \in CacheDates \ {date} : cache'[d] = cache[d]]_vars

\* C15 witness: a fetch wrote the file of its date from the fourth chart of
\* a page whose fifth chart holds the marker too.
C15_Witness ==
    /\ Len(log) > 0 /\ log[Len(log)].op = "fetched"
    /\ cache[date].lines = << Row(date, H05, V42), Row(date, <<"1", "2">>, <<"7">>) >>

\* the places of the events op in the log of the run
Places(op) == {i \in 1..Len(log) : log[i].op = op}

\* the run is in its date loop or past it
InOrPastLoop == pc \in {"loop", "fetch", "load", "done", "reported", "report_error"}

\* C16: in a run the session is opened once, then the login happens once,
\* then the keyword id is resolved once, all before the first cache check,
\* fetch and load; no step of the date loop changes keyword_id; and the
\* cache directory exists when the loop begins and while it runs.
C16_SetupOnceBeforeLoop ==
    /\ [](/\ Cardinality(Places("open")) <= 1
          /\ Cardinality(Places("login")) <= 1
          /\ Cardinality(Places("resolve")) <= 1
          /\ \A i \in 1..Len(log) :
                 (IsVisit(log[i]) \/ IsFetch(log[i]) \/ IsLoad(log[i])) =>
                     \E o \in Places("open"), l \in Places("login"),
                        r \in Places("resolve") : o < l /\ l < r /\ r < i
          /\ (InOrPastLoop \/ (pc = "aborted" /\ Len(Visited) > 0)) =>
                 /\ Cardinality(Places("resolve")) = 1
                 /\ web_driver = "logged_in")
    /\ [](pc \in {"loop", "fetch", "load"} => dir_exists)
    /\ [][(pc \in {"loop", "fetch", "load"}) => _keyword_id' = _keyword_id]_vars

\* C16 witness: a run that resolved the keyword id is back at the loop test
\* after a fetch and a load.
C16_Witness ==
    /\ pc = "loop"
    /\ _keyword_id \notin {"", None}
    /\ HasEvent("fetched") /\ HasEvent("loaded")

\* the last two steps of the run were the fetch of a date that wrote all
\* the rows of the chart, and the load of the file written
FetchedThenLoaded ==
    /\ Len(log) >= 2
    /\ log[Len(log) - 1].op = "fetched"
    /\ log[Len(log)].op \in {"loaded", "load_error"}
    /\ log[Len(log)].d = log[Len(log) - 1].d

\* C17: a fetch of date d from a chart whose rows all have an integer hour
\* and a value field writes one line per row and every line holds exactly
\* one comma; and the load of the file written raises nothing and parses one
\* point per line, in order, each with a timestamp whose date part is d.
C17_FetchParseRoundTrip ==
    /\ [][\A charts \in ChartPages :
              (/\ Fetch(charts)
               /\ MarkerCharts(charts) # {}
               /\ \A j \in 1..Len(HourlyRows(charts)) : GoodRow(HourlyRows(charts)[j])) =>
                  /\ HasPrefix20(date)
                  /\ cache'[date].exists
                  /\ Len(cache'[date].lines) = Len(HourlyRows(charts))
                  /\ \A j \in 1..Len(cache'[date].lines) :
                         CommaCount(cache'[date].lines[j]) = 1]_vars
    /\ [](FetchedThenLoaded =>
              /\ LastOp = "loaded"
              /\ Len(points) = Len(LastFile)
              /\ \A j \in 1..Len(points) :
                     /\ DatePart(points[j][1]) = log[Len(log)].d
                     /\ points[j][1] \o <<",">> \o points[j][2] = LastFile[j])

\* C17 witness: the file written from a chart of two rows, one of them with
\* three fields, was parsed into two points.
C17_Witness ==
    /\ FetchedThenLoaded /\ LastOp = "loaded"
    /\ Len(points) = 2
    /\ points[2][2] = <<"7">>

\* C18: a fetch of a page on which no chart holds the marker reports the
\* failure, creates and changes no cache file and changes nothing in the
\* store; and when the fetch of a date failed in a run, a later run over the
\* same range that visits the date finds no file for it and fetches it again.
C18_FailureNotCached ==
    /\ [][\A charts \in ChartPages :
              (Fetch(charts) /\ MarkerCharts(charts) = {}) =>
                  /\ FetchFailed
                  /\ cache' = cache
                  /\ _data' = _data
                  /\ _num_period' = _num_period
                  /\ _max_period' = _max_period]_vars
    /\ [](\A i \in 1..Len(log) :
              log[i].op = "fetch_failed" => ~cache[log[i].d].exists)
    /\ []((SameRangeAsPrev /\ prev.failed # <<>>) =>
              \A i \in 1..Len(log) :
                  (IsVisit(log[i]) /\ log[i].d = prev.failed) =>
                      /\ log[i].op = "miss"
                      /\ IF i = Len(log) THEN pc = "fetch"
                         ELSE IsFetch(log[i + 1]) /\ log[i + 1].d = prev.failed)

\* C18 witness: a run fetched and merged the date whose fetch had failed in
\* the run before it.
C18_Witness ==
    /\ SameRangeAsPrev /\ prev.failed # <<>>
    /\ \E i \in 1..Len(log) : log[i].op = "fetched" /\ log[i].d = prev.failed
    /\ \E i \in 1..Len(log) : log[i].op = "loaded" /\ log[i].d = prev.failed

====
